---- MODULE Spec2Model ----
(***************************************************************************)
(* Model of markdown-toc.py: heading extraction, anchor slugs, TOC         *)
(* rendering and TOC insertion.                                            *)
(*                                                                         *)
(* Representation.  A character is a one-character string.  A line is a    *)
(* sequence of characters.  A Python string that may hold newlines is the  *)
(* non-empty sequence of its lines, i.e. the value of s.split('\n'); the   *)
(* empty string is << <<>> >>.  List indices are 0-based as in the source; *)
(* None is the index -1.  The backtick cannot be written in a string       *)
(* literal, so that one character is written "BACKTICK".                   *)
(***************************************************************************)
EXTENDS Integers, Sequences, FiniteSets, TLC

VARIABLES pc, run, content, max_level, skip_first, headings, toc,
          toc_entries, toc_start, toc_end, lines, first_heading_idx, result

vars == <<pc, run, content, max_level, skip_first, headings, toc,
          toc_entries, toc_start, toc_end, lines, first_heading_idx, result>>

(* ---------------------------- bounds ----------------------------------- *)
MaxLines == 4
MaxTocDocLines == 4
MaxExtractLines == 4
MaxHeadings == 3
MaxRuns == 2

(* ------------------------ characters and strings ----------------------- *)
None == -1

UpperChars == <<"A","B","C","D","E","F","G","H","I","J","K","L","M",
                "N","O","P","Q","R","S","T","U","V","W","X","Y","Z">>
LowerChars == <<"a","b","c","d","e","f","g","h","i","j","k","l","m",
                "n","o","p","q","r","s","t","u","v","w","x","y","z">>
DigitChars == <<"0","1","2","3","4","5","6","7","8","9">>

Range(s) == {s[i] : i \in DOMAIN s}

IsSpace(c) == c \in {" ", "\t"}

IsWord(c) == c \in Range(UpperChars) \cup Range(LowerChars)
                   \cup Range(DigitChars) \cup {"_"}

LowerChar(c) ==
    IF c \in Range(UpperChars)
    THEN LowerChars[CHOOSE i \in DOMAIN UpperChars : UpperChars[i] = c]
    ELSE c

Drop(s, n) == SubSeq(s, n + 1, Len(s))

Take(s, n) == SubSeq(s, 1, n)

StartsWith(s, p) == Len(s) >= Len(p) /\ Take(s, Len(p)) = p

RECURSIVE LStrip(_)
LStrip(s) == IF s # <<>> /\ IsSpace(s[1]) THEN LStrip(Tail(s)) ELSE s

RECURSIVE RStrip(_)
RStrip(s) ==
    IF s # <<>> /\ IsSpace(s[Len(s)]) THEN RStrip(Take(s, Len(s) - 1)) ELSE s

Strip(s) == RStrip(LStrip(s))

RECURSIVE Flatten(_)
Flatten(ss) == IF ss = <<>> THEN <<>> ELSE Head(ss) \o Flatten(Tail(ss))

RECURSIVE Repeat(_, _)
Repeat(s, n) == IF n <= 0 THEN <<>> ELSE s \o Repeat(s, n - 1)

RECURSIVE ToDecimal(_)
ToDecimal(n) ==
    IF n < 10 THEN <<DigitChars[n + 1]>>
    ELSE ToDecimal(n \div 10) \o <<DigitChars[(n % 10) + 1]>>

EmptyStr == << <<>> >>

(* a + b for strings held as line lists *)
Concat(a, b) ==
    Take(a, Len(a) - 1) \o <<a[Len(a)] \o b[1]>> \o Tail(b)

(* '\n'.join(ls) for a list of newline-free strings *)
JoinLines(ls) == IF ls = <<>> THEN EmptyStr ELSE ls

(* '\n'.join(xs) for a list of strings that may themselves hold newlines *)
JoinStrs(xs) == IF xs = <<>> THEN EmptyStr ELSE Flatten(xs)

Newline == << <<>>, <<>> >>

Hash == "#"
Backtick == "BACKTICK"
BacktickFence == <<Backtick, Backtick, Backtick>>
TildeFence == <<"~", "~", "~">>
TocStartMarker == <<"<","!","-","-"," ","T","O","C"," ","-","-",">">>
TocEndMarker == <<"<","!","-","-"," ","/","T","O","C"," ","-","-",">">>
CommentOpen == <<"<","!","-","-">>
CommentClose == <<"-","-",">">>
FourSpaces == <<" ", " ", " ", " ">>
TabPrefix == <<"\t">>

(* --------------------------- heading_to_anchor ------------------------- *)
(* index of the first occurrence of p in s at or after position i, 0 if none *)
RECURSIVE FindFrom(_, _, _)
FindFrom(s, p, i) ==
    IF i + Len(p) - 1 > Len(s) THEN 0
    ELSE IF SubSeq(s, i, i + Len(p) - 1) = p THEN i
    ELSE FindFrom(s, p, i + 1)

(* re.sub(r'<!--.*?-->', '', text) *)
RECURSIVE RemoveComments(_)
RemoveComments(s) ==
    IF s = <<>> THEN <<>>
    ELSE IF StartsWith(s, CommentOpen)
            /\ FindFrom(s, CommentClose, Len(CommentOpen) + 1) # 0
         THEN RemoveComments(
                Drop(s, FindFrom(s, CommentClose, Len(CommentOpen) + 1)
                        + Len(CommentClose) - 1))
         ELSE <<Head(s)>> \o RemoveComments(Tail(s))

(* re.sub: an inline code span (backtick, one or more non-backticks,      *)
(* backtick) is replaced by its inner text                               *)
RECURSIVE StripCodeMarkers(_)
StripCodeMarkers(s) ==
    IF s = <<>> THEN <<>>
    ELSE IF Head(s) = Backtick /\ FindFrom(s, <<Backtick>>, 2) > 2
         THEN SubSeq(s, 2, FindFrom(s, <<Backtick>>, 2) - 1)
              \o StripCodeMarkers(Drop(s, FindFrom(s, <<Backtick>>, 2)))
         ELSE <<Head(s)>> \o StripCodeMarkers(Tail(s))

Lower(s) == [i \in DOMAIN s |-> LowerChar(s[i])]

(* re.sub(r'[^\w\s-]', '', anchor) *)
RemoveSpecial(s) == SelectSeq(s, LAMBDA c : IsWord(c) \/ IsSpace(c) \/ c = "-")

(* re.sub(r'\s+', '-', anchor) *)
RECURSIVE SpacesToHyphen(_)
SpacesToHyphen(s) ==
    IF s = <<>> THEN <<>>
    ELSE IF IsSpace(Head(s)) THEN <<"-">> \o SpacesToHyphen(LStrip(s))
    ELSE <<Head(s)>> \o SpacesToHyphen(Tail(s))

(* re.sub(r'-+', '-', anchor) *)
RECURSIVE CollapseHyphens(_)
CollapseHyphens(s) ==
    IF s = <<>> THEN <<>>
    ELSE IF Head(s) = "-" /\ Len(s) >= 2 /\ s[2] = "-"
         THEN CollapseHyphens(Tail(s))
         ELSE <<Head(s)>> \o CollapseHyphens(Tail(s))

(* anchor.strip('-') *)
RECURSIVE StripHyphens(_)
StripHyphens(s) ==
    IF s # <<>> /\ Head(s) = "-" THEN StripHyphens(Tail(s))
    ELSE IF s # <<>> /\ s[Len(s)] = "-" THEN StripHyphens(Take(s, Len(s) - 1))
    ELSE s

heading_to_anchor(text) ==
    StripHyphens(CollapseHyphens(SpacesToHyphen(RemoveSpecial(
        Lower(StripCodeMarkers(RemoveComments(text)))))))

(* ----------------------------- extract_headings ------------------------ *)
NoFence == <<>>

RECURSIVE LeadingHashes(_)
LeadingHashes(line) ==
    IF line # <<>> /\ Head(line) = Hash THEN 1 + LeadingHashes(Tail(line)) ELSE 0

(* re.match(r'^(#{1,6})\s+(.+)$', line): one to six hashes, then at least   *)
(* one whitespace character, then at least one more character (which may    *)
(* itself be whitespace that \s+ gives back)                                *)
HeadingMatch(line) ==
    /\ LeadingHashes(line) \in 1..6
    /\ Len(line) >= LeadingHashes(line) + 2
    /\ IsSpace(line[LeadingHashes(line) + 1])

(* len(match.group(1)) *)
HeadingLevel(line) == LeadingHashes(line)

(* match.group(2).strip() *)
HeadingText(line) == Strip(Drop(line, LeadingHashes(line)))

IsFenceLine(stripped) ==
    StartsWith(stripped, BacktickFence) \/ StartsWith(stripped, TildeFence)

(* variant: any fence line closes the open fence, whatever its delimiter *)
ClosesFenceAny(stripped, code_fence) == IsFenceLine(stripped)

ClosesFence(stripped, code_fence) == StartsWith(stripped, code_fence)

IsIndentedCode(line) == StartsWith(line, FourSpaces) \/ StartsWith(line, TabPrefix)

RECURSIVE ExtractLoop(_, _, _, _, _)
ExtractLoop(ls, idx, in_code_block, code_fence, hs) ==
    IF idx >= Len(ls) THEN hs
    ELSE LET line == ls[idx + 1]
             stripped == Strip(line)
         IN IF IsFenceLine(stripped)
            THEN IF ~in_code_block
                 THEN ExtractLoop(ls, idx + 1, TRUE, Take(stripped, 3), hs)
                 ELSE IF ClosesFence(stripped, code_fence)
                 THEN ExtractLoop(ls, idx + 1, FALSE, NoFence, hs)
                 ELSE ExtractLoop(ls, idx + 1, in_code_block, code_fence, hs)
            ELSE IF in_code_block
            THEN ExtractLoop(ls, idx + 1, in_code_block, code_fence, hs)
            ELSE IF IsIndentedCode(line)
            THEN ExtractLoop(ls, idx + 1, in_code_block, code_fence, hs)
            ELSE IF HeadingMatch(line)
            THEN ExtractLoop(ls, idx + 1, in_code_block, code_fence,
                     Append(hs, <<HeadingLevel(line), HeadingText(line), idx>>))
            ELSE ExtractLoop(ls, idx + 1, in_code_block, code_fence, hs)

extract_headings(ls) == ExtractLoop(ls, 0, FALSE, NoFence, <<>>)

(* ------------------------------- generate_toc -------------------------- *)
(* variant: the first heading is dropped whatever skip_first says *)
TocHeadingsAlwaysSkip(hs, skip) == IF hs # <<>> THEN Tail(hs) ELSE hs

TocHeadings(hs, skip) == IF skip /\ hs # <<>> THEN Tail(hs) ELSE hs

Min(S) == CHOOSE m \in S : \A x \in S : m <= x

MinLevel(toc_headings) == Min({toc_headings[i][1] : i \in DOMAIN toc_headings})

Indent(level, min_level) == Repeat(<<" ", " ">>, level - min_level)

(* the duplicate handling of one loop iteration: the new counter table *)
CountAnchor(anchor_counts, anchor) ==
    IF anchor \in DOMAIN anchor_counts
    THEN [anchor_counts EXCEPT ![anchor] = @ + 1]
    ELSE (anchor :> 0) @@ anchor_counts

(* variant: the suffix is the count before the increment *)
FinalAnchorStale(anchor_counts, anchor) ==
    IF anchor \in DOMAIN anchor_counts
    THEN anchor \o <<"-">> \o ToDecimal(anchor_counts[anchor])
    ELSE anchor

(* the duplicate handling of one loop iteration: the final anchor *)
FinalAnchor(anchor_counts, anchor) ==
    IF anchor \in DOMAIN anchor_counts
    THEN anchor \o <<"-">> \o ToDecimal(anchor_counts[anchor] + 1)
    ELSE anchor

ExceedsMaxLevel(level, maxl) == level > maxl

(* variant: the anchor is counted before the level check, so a heading    *)
(* deeper than max_level still uses up an anchor                          *)
RECURSIVE TocLoopCountsSkipped(_, _, _, _, _, _)
TocLoopCountsSkipped(toc_headings, i, min_level, maxl, anchor_counts, out) ==
    IF i > Len(toc_headings) THEN out
    ELSE LET level == toc_headings[i][1]
             text == toc_headings[i][2]
             anchor == heading_to_anchor(text)
         IN IF ExceedsMaxLevel(level, maxl)
            THEN TocLoopCountsSkipped(toc_headings, i + 1, min_level, maxl,
                         CountAnchor(anchor_counts, anchor), out)
            ELSE TocLoopCountsSkipped(toc_headings, i + 1, min_level, maxl,
                         CountAnchor(anchor_counts, anchor),
                         Append(out, [level |-> level,
                                      indent |-> Indent(level, min_level),
                                      text |-> text,
                                      anchor |-> FinalAnchor(anchor_counts, anchor)]))

(* the for loop; each emitted line is kept as the values its f-string formats *)
RECURSIVE TocLoop(_, _, _, _, _, _)
TocLoop(toc_headings, i, min_level, maxl, anchor_counts, out) ==
    IF i > Len(toc_headings) THEN out
    ELSE LET level == toc_headings[i][1]
             text == toc_headings[i][2]
             anchor == heading_to_anchor(text)
         IN IF ExceedsMaxLevel(level, maxl)
            THEN TocLoop(toc_headings, i + 1, min_level, maxl, anchor_counts, out)
            ELSE TocLoop(toc_headings, i + 1, min_level, maxl,
                         CountAnchor(anchor_counts, anchor),
                         Append(out, [level |-> level,
                                      indent |-> Indent(level, min_level),
                                      text |-> text,
                                      anchor |-> FinalAnchor(anchor_counts, anchor)]))

EmptyCounts == [a \in {} |-> 0]

TocEntries(hs, maxl, skip) ==
    IF hs = <<>> THEN <<>>
    ELSE IF TocHeadings(hs, skip) = <<>> THEN <<>>
    ELSE TocLoop(TocHeadings(hs, skip), 1, MinLevel(TocHeadings(hs, skip)),
                 maxl, EmptyCounts, <<>>)

(* f'{indent}- [{text}](#{anchor})' *)
FormatEntry(e) ==
    e.indent \o <<"-", " ", "[">> \o e.text \o <<"]", "(", "#">> \o e.anchor \o <<")">>

generate_toc(hs, maxl, skip) ==
    IF hs = <<>> THEN EmptyStr
    ELSE IF TocHeadings(hs, skip) = <<>> THEN EmptyStr
    ELSE JoinLines([i \in DOMAIN TocEntries(hs, maxl, skip) |->
                       FormatEntry(TocEntries(hs, maxl, skip)[i])])

(* -------------------------------- insert_toc --------------------------- *)
(* the marker loop: <<toc_start, toc_end>> *)
RECURSIVE MarkerLoop(_, _, _)
MarkerLoop(ls, i, ts) ==
    IF i >= Len(ls) THEN <<ts, None>>
    ELSE IF Strip(ls[i + 1]) = TocStartMarker THEN MarkerLoop(ls, i + 1, i)
    ELSE IF Strip(ls[i + 1]) = TocEndMarker /\ ts # None THEN <<ts, i>>
    ELSE MarkerLoop(ls, i + 1, ts)

FindTocMarkers(ls) == MarkerLoop(ls, 0, None)

(* variant: the slice after the block starts one line too late *)
RemoveTocBlockOneMore(ls, ts, te) ==
    IF ts # None /\ te # None THEN Take(ls, ts) \o Drop(ls, te + 2) ELSE ls

RemoveTocBlock(ls, ts, te) ==
    IF ts # None /\ te # None THEN Take(ls, ts) \o Drop(ls, te + 1) ELSE ls

(* re.match(r'^#{1,6}\s+', line) *)
InsertHeadingMatch(line) ==
    /\ LeadingHashes(line) \in 1..6
    /\ Len(line) >= LeadingHashes(line) + 1
    /\ IsSpace(line[LeadingHashes(line) + 1])

RECURSIVE FirstHeadingLoop(_, _, _, _)
FirstHeadingLoop(ls, i, in_code_block, code_fence) ==
    IF i >= Len(ls) THEN None
    ELSE LET line == ls[i + 1]
             stripped == Strip(line)
         IN IF StartsWith(stripped, BacktickFence) \/ StartsWith(stripped, TildeFence)
            THEN IF ~in_code_block
                 THEN FirstHeadingLoop(ls, i + 1, TRUE, Take(stripped, 3))
                 ELSE IF StartsWith(stripped, code_fence)
                 THEN FirstHeadingLoop(ls, i + 1, FALSE, NoFence)
                 ELSE FirstHeadingLoop(ls, i + 1, in_code_block, code_fence)
            ELSE IF in_code_block
            THEN FirstHeadingLoop(ls, i + 1, in_code_block, code_fence)
            ELSE IF InsertHeadingMatch(line) THEN i
            ELSE FirstHeadingLoop(ls, i + 1, in_code_block, code_fence)

FindFirstHeading(ls) == FirstHeadingLoop(ls, 0, FALSE, NoFence)

RECURSIVE ConcatAll(_)
ConcatAll(xs) == IF xs = <<>> THEN EmptyStr ELSE Concat(Head(xs), ConcatAll(Tail(xs)))

(* f'<!-- TOC -->\n{toc}\n<!-- /TOC -->\n\n' + content *)
PrependToc(doc, tocstr) ==
    Concat(ConcatAll(<< <<TocStartMarker>>, Newline, tocstr, Newline,
                        <<TocEndMarker>>, Newline, Newline >>), doc)

(* '\n'.join(lines[:first_heading_idx + 1] + toc_block + lines[first_heading_idx + 1:]) *)
InsertAfterHeading(ls, fh, tocstr) ==
    JoinStrs([i \in DOMAIN Take(ls, fh + 1) |-> <<ls[i]>>]
             \o <<EmptyStr, <<TocStartMarker>>, tocstr, <<TocEndMarker>> >>
             \o [i \in DOMAIN Drop(ls, fh + 1) |-> <<Drop(ls, fh + 1)[i]>>])

insert_toc(doc, tocstr) ==
    LET m == FindTocMarkers(doc)
        ls == RemoveTocBlock(doc, m[1], m[2])
        fh == FindFirstHeading(ls)
    IN IF fh = None THEN PrependToc(doc, tocstr)
       ELSE InsertAfterHeading(ls, fh, tocstr)

(* ------------------------------ inputs --------------------------------- *)
MinLevelArg == 1
MaxLevelArg == 6

LineTitle == <<"#", " ", "T">>
LineSectionA == <<"#", "#", " ", "A">>
LineHashOnly == <<"#", " ">>
LineIndentedHeading == <<" ", " ", " ", " ", "#", " ", "T">>
LineBacktickFence == BacktickFence
LineTildeFence == TildeFence
LineIndentedFenceInfo == <<" ">> \o BacktickFence \o <<"p">>
LineText == <<"x">>
LineBlank == <<>>

PipelineLines == {LineTitle, LineSectionA, TocStartMarker, TocEndMarker,
                  LineBacktickFence, LineBlank}

ExtractLines == {LineBacktickFence, LineTildeFence, LineIndentedFenceInfo,
                 LineTitle, LineIndentedHeading}

InsertLines == {TocStartMarker, TocEndMarker, LineTitle, LineHashOnly,
                LineBacktickFence, LineText, LineBlank}

TocBodies == {EmptyStr, << <<"t">> >>, << <<"t">>, <<"u">> >>}

HeadingTexts == {<<"A">>, <<"A", "-", "1">>, <<"!">>}

HeadingLevels == {1, 2, 4}

SeqsUpTo(S, n) == UNION {[1..k -> S] : k \in 1..n}

HeadingLists ==
    UNION {{[i \in 1..k |-> <<lv[i], tx[i], i - 1>>] :
              lv \in [1..k -> HeadingLevels], tx \in [1..k -> HeadingTexts]} :
           k \in 0..MaxHeadings}

(* ------------------------------ actions -------------------------------- *)
InitLocals ==
    /\ headings = <<>>
    /\ toc = EmptyStr
    /\ toc_entries = <<>>
    /\ toc_start = None
    /\ toc_end = None
    /\ lines = <<>>
    /\ first_heading_idx = None
    /\ result = EmptyStr

(* main, lines 212-213 *)
ExtractHeadings ==
    /\ pc = "start"
    /\ headings' = extract_headings(content)
    /\ pc' = "extracted"
    /\ UNCHANGED <<run, content, max_level, skip_first, toc, toc_entries,
                   toc_start, toc_end, lines, first_heading_idx, result>>

(* main, line 214 *)
GenerateToc ==
    /\ pc = "extracted"
    /\ toc' = generate_toc(headings, max_level, skip_first)
    /\ toc_entries' = TocEntries(headings, max_level, skip_first)
    /\ pc' = "generated"
    /\ UNCHANGED <<run, content, max_level, skip_first, headings,
                   toc_start, toc_end, lines, first_heading_idx, result>>

(* main, lines 216-218 *)
NoToc ==
    /\ pc = "generated"
    /\ toc = EmptyStr
    /\ pc' = "exit"
    /\ UNCHANGED <<run, content, max_level, skip_first, headings, toc,
                   toc_entries, toc_start, toc_end, lines, first_heading_idx,
                   result>>

(* the call insert_toc(content, toc) *)
InsertToc ==
    /\ pc = "generated"
    /\ toc_start' = FindTocMarkers(content)[1]
    /\ toc_end' = FindTocMarkers(content)[2]
    /\ lines' = RemoveTocBlock(content, toc_start', toc_end')
    /\ first_heading_idx' = FindFirstHeading(lines')
    /\ result' = insert_toc(content, toc)
    /\ pc' = "inserted"
    /\ UNCHANGED <<run, content, max_level, skip_first, headings, toc,
                   toc_entries>>

(* main, lines 216-220 *)
MainInsertToc == toc # EmptyStr /\ InsertToc

(* main, lines 225-228: the file is rewritten in place, and the tool is run again *)
WriteFile ==
    /\ pc = "inserted"
    /\ run < MaxRuns
    /\ content' = result
    /\ run' = run + 1
    /\ pc' = "start"
    /\ headings' = <<>>
    /\ toc' = EmptyStr
    /\ toc_entries' = <<>>
    /\ toc_start' = None
    /\ toc_end' = None
    /\ lines' = <<>>
    /\ first_heading_idx' = None
    /\ result' = EmptyStr
    /\ UNCHANGED <<max_level, skip_first>>

(* --------------------- the whole tool, run repeatedly ------------------ *)
Init ==
    /\ pc = "start"
    /\ run = 1
    /\ content \in SeqsUpTo(PipelineLines, MaxLines)
    /\ max_level \in MinLevelArg..MaxLevelArg
    /\ skip_first \in BOOLEAN
    /\ InitLocals

Next == ExtractHeadings \/ GenerateToc \/ NoToc \/ MainInsertToc \/ WriteFile

Spec == Init /\ [][Next]_vars

(* --------------------------- extract_headings alone -------------------- *)
InitExtract ==
    /\ pc = "start"
    /\ run = 1
    /\ content \in SeqsUpTo(ExtractLines, MaxExtractLines)
    /\ max_level = 3
    /\ skip_first = TRUE
    /\ InitLocals

NextExtract == ExtractHeadings

SpecExtract == InitExtract /\ [][NextExtract]_vars

(* ----------------------------- generate_toc alone ---------------------- *)
InitToc ==
    /\ pc = "extracted"
    /\ run = 1
    /\ content = EmptyStr
    /\ max_level \in MinLevelArg..MaxLevelArg
    /\ skip_first \in BOOLEAN
    /\ headings \in HeadingLists
    /\ toc = EmptyStr
    /\ toc_entries = <<>>
    /\ toc_start = None
    /\ toc_end = None
    /\ lines = <<>>
    /\ first_heading_idx = None
    /\ result = EmptyStr

NextToc == GenerateToc

SpecToc == InitToc /\ [][NextToc]_vars

(* ------------------------------ insert_toc alone ----------------------- *)
InitInsert ==
    /\ pc = "generated"
    /\ run = 1
    /\ content \in SeqsUpTo(InsertLines, MaxTocDocLines)
    /\ max_level = 3
    /\ skip_first = TRUE
    /\ headings = <<>>
    /\ toc \in TocBodies
    /\ toc_entries = <<>>
    /\ toc_start = None
    /\ toc_end = None
    /\ lines = <<>>
    /\ first_heading_idx = None
    /\ result = EmptyStr

NextInsert == InsertToc

SpecInsert == InitInsert /\ [][NextInsert]_vars

(* ============================ properties =============================== *)
SeqCount(sq, x) == Cardinality({i \in DOMAIN sq : sq[i] = x})

SameLines(a, b) ==
    /\ Len(a) = Len(b)
    /\ \A x \in Range(a) \cup Range(b) : SeqCount(a, x) = SeqCount(b, x)

RECURSIVE IsSubseq(_, _)
IsSubseq(a, b) ==
    IF a = <<>> THEN TRUE
    ELSE IF b = <<>> THEN FALSE
    ELSE IF Head(a) = Head(b) THEN IsSubseq(Tail(a), Tail(b))
    ELSE IsSubseq(a, Tail(b))

EndsWith(sq, suffix) ==
    Len(sq) >= Len(suffix) /\ SubSeq(sq, Len(sq) - Len(suffix) + 1, Len(sq)) = suffix

LevelText(hs) == [i \in DOMAIN hs |-> <<hs[i][1], hs[i][2]>>]

(* ---- C3 ---- *)
(* the 3-character fence marker a line starts with after trimming, or <<>> *)
C3Marker(line) ==
    LET t == Strip(line)
    IN IF Len(t) >= 3 /\ t[1] \in {Backtick, "~"} /\ t[2] = t[1] /\ t[3] = t[1]
       THEN <<t[1], t[2], t[3]>> ELSE <<>>

(* 1-based positions from an opening fence line to the next later line     *)
(* starting with the same marker (to the end when there is none), scanning *)
(* from position i outside any fence                                       *)
RECURSIVE C3Hidden(_, _)
C3Hidden(ls, i) ==
    IF i > Len(ls) THEN {}
    ELSE IF C3Marker(ls[i]) = <<>> THEN C3Hidden(ls, i + 1)
    ELSE LET closers == {k \in (i + 1)..Len(ls) : C3Marker(ls[k]) = C3Marker(ls[i])}
             close == IF closers = {} THEN Len(ls) ELSE Min(closers)
         IN (i..close) \cup C3Hidden(ls, close + 1)

(* C3: extract_headings returns no heading whose line is a fence boundary, *)
(* or lies between an opening fence line and the next line starting with   *)
(* the same marker (a line of the other delimiter does not close it), or   *)
(* lies after an unclosed opening fence line.                              *)
C3FenceIsolation ==
    pc = "extracted" =>
        \A i \in DOMAIN headings : (headings[i][3] + 1) \notin C3Hidden(content, 1)

(* a heading-like line is hidden behind a fence that holds a line of the   *)
(* other delimiter, and a heading after the closing line is returned       *)
C3Witness ==
    /\ pc = "extracted"
    /\ headings # <<>>
    /\ \E i, j, k \in DOMAIN content :
          /\ i < j /\ j < k
          /\ C3Marker(content[i]) = BacktickFence
          /\ C3Marker(content[j]) = TildeFence
          /\ content[k] = LineTitle
          /\ {i, j, k} \subseteq C3Hidden(content, 1)

(* ---- C4 ---- *)
C4Rendered ==
    SelectSeq(IF skip_first THEN Drop(headings, 1) ELSE headings,
              LAMBDA h : h[1] <= max_level)

(* number of rendered headings before position i with the slug of heading i *)
C4Occurrence(i) ==
    Cardinality({j \in 1..(i - 1) :
        heading_to_anchor(C4Rendered[j][2]) = heading_to_anchor(C4Rendered[i][2])})

C4Expected(i) ==
    IF C4Occurrence(i) = 0 THEN heading_to_anchor(C4Rendered[i][2])
    ELSE heading_to_anchor(C4Rendered[i][2]) \o <<"-">> \o ToDecimal(C4Occurrence(i))

(* C4: the k-th rendered heading (k from 0) with slug r is linked to r     *)
(* when k = 0 and to r-k when k >= 1, the empty slug included; the heading *)
(* dropped by skip_first is not an occurrence.                             *)
C4DuplicateNumbering ==
    pc = "generated" =>
        IF C4Rendered = <<>> THEN toc = EmptyStr
        ELSE /\ Len(toc) = Len(C4Rendered)
             /\ \A i \in DOMAIN toc :
                   EndsWith(toc[i], <<"]", "(", "#">> \o C4Expected(i) \o <<")">>)

(* three headings of the empty slug, the first dropped by skip_first: the  *)
(* two rendered get the anchors "" and "-1", not "-1" and "-2"             *)
C4Witness ==
    /\ pc = "generated"
    /\ skip_first
    /\ Len(headings) = 3
    /\ \A i \in DOMAIN headings : heading_to_anchor(headings[i][2]) = <<>>
    /\ Len(toc) = 2
    /\ C4Occurrence(2) = 1
    /\ EndsWith(toc[1], <<"(", "#", ")">>)
    /\ EndsWith(toc[2], <<"(", "#", "-", "1", ")">>)

(* ---- C5 ---- *)
C5Remaining == IF skip_first THEN Drop(headings, 1) ELSE headings

C5Filtered == SelectSeq(C5Remaining, LAMBDA h : h[1] <= max_level)

C5MinLevel == Min({C5Remaining[i][1] : i \in DOMAIN C5Remaining})

(* C5: the body equals the body rendered from the remaining list without   *)
(* its headings of level > max_level; line i belongs to the i-th heading   *)
(* kept and is indented by 2 * (level - minLevel) spaces.                  *)
C5DepthFiltering ==
    pc = "generated" =>
        /\ toc = generate_toc(C5Filtered, max_level, FALSE)
        /\ C5Filtered # <<>> =>
              /\ Len(toc) = Len(C5Filtered)
              /\ \A i \in DOMAIN toc :
                    StartsWith(toc[i],
                        Repeat(<<" ">>, 2 * (C5Filtered[i][1] - C5MinLevel))
                        \o <<"-", " ", "[">> \o C5Filtered[i][2] \o <<"]">>)

(* a heading deeper than max_level lies between two kept headings, all    *)
(* three of one slug, and the second kept heading is indented by one unit  *)
(* and numbered -1                                                         *)
C5Witness ==
    /\ pc = "generated"
    /\ Len(C5Remaining) = 3
    /\ C5Remaining[1][1] < C5Remaining[3][1]
    /\ C5Remaining[3][1] <= max_level
    /\ C5Remaining[2][1] > max_level
    /\ \A i \in 1..3 :
          heading_to_anchor(C5Remaining[i][2]) = heading_to_anchor(C5Remaining[1][2])
    /\ Len(toc) = 2
    /\ StartsWith(toc[2], <<" ", " ", "-">>)
    /\ EndsWith(toc[2], <<"-", "1", ")">>)

(* ---- C6 ---- *)
C6Remaining == IF skip_first THEN Drop(headings, 1) ELSE headings

(* C6 as stated: the no-TOC result (the empty string, which main tests     *)
(* with "not toc") is returned exactly when the remaining list is empty.   *)
C6NoTocIffEmptyRemaining ==
    pc = "generated" => ((toc = EmptyStr) <=> (C6Remaining = <<>>))

(* C6 amended: the empty string is returned exactly when no remaining      *)
(* heading has level <= max_level, the empty remaining list included.      *)
C6NoTocIffNothingRendered ==
    pc = "generated" =>
        ((toc = EmptyStr) <=>
             (\A i \in DOMAIN C6Remaining : C6Remaining[i][1] > max_level))

(* the remaining list is not empty, every heading of it is deeper than     *)
(* max_level, and the result is the empty string                           *)
C6Witness ==
    /\ pc = "generated"
    /\ C6Remaining # <<>>
    /\ \A i \in DOMAIN C6Remaining : C6Remaining[i][1] > max_level
    /\ toc = EmptyStr

(* ---- C9 ---- *)
(* C9: the anchors of the emitted lines are pairwise distinct.             *)
C9AnchorsDistinct ==
    pc = "generated" =>
        \A i, j \in DOMAIN toc_entries :
            i # j => toc_entries[i].anchor # toc_entries[j].anchor

(* ---- C2 ---- *)
(* the input lines outside [toc_start, toc_end]; all of them without a pair *)
C2Kept ==
    IF toc_start # None /\ toc_end # None
    THEN SelectSeq([i \in DOMAIN content |-> <<i - 1, content[i]>>],
                   LAMBDA x : x[1] < toc_start \/ x[1] > toc_end)
    ELSE [i \in DOMAIN content |-> <<i - 1, content[i]>>]

C2KeptLines == [i \in DOMAIN C2Kept |-> C2Kept[i][2]]

C2BlockLen == Len(toc) + 3

(* C2: the output is the input plus the lines of one inserted block        *)
(* (blank line, start marker, toc, end marker), put at one place: every    *)
(* input line outside [toc_start, toc_end] is in the output, unchanged and *)
(* in order, nothing else is added, and the lines up to and including the  *)
(* first heading stay where they are in the list the block was cut from    *)
(* (in the input itself when the cut block lies after that heading).       *)
C2Frame ==
    pc = "inserted" =>
        /\ \E p \in 0..(Len(result) - C2BlockLen) :
              LET rest == Take(result, p) \o Drop(result, p + C2BlockLen)
              IN /\ SameLines(SubSeq(result, p + 1, p + C2BlockLen),
                              <<LineBlank, TocStartMarker, TocEndMarker>> \o toc)
                 /\ IsSubseq(C2KeptLines, rest)
                 /\ IsSubseq(rest, content)
                 /\ first_heading_idx # None => p = first_heading_idx + 1
        /\ first_heading_idx # None =>
              /\ \A i \in 1..(first_heading_idx + 1) : result[i] = C2KeptLines[i]
              /\ (toc_start = None \/ toc_end = None \/ toc_start > first_heading_idx)
                    => \A i \in 1..(first_heading_idx + 1) : result[i] = content[i]

(* an old block is cut out, with a line before it, the first heading, and  *)
(* a line after it, and a two-line body is inserted                        *)
C2Witness ==
    /\ pc = "inserted"
    /\ toc_start # None /\ toc_end # None
    /\ first_heading_idx # None
    /\ first_heading_idx < toc_start
    /\ toc_end + 1 < Len(content)
    /\ Len(toc) = 2
    /\ Len(result) = Len(content) - (toc_end - toc_start + 1) + C2BlockLen

(* ---- C7 ---- *)
C7Starts == {i \in 0..(Len(content) - 1) : Strip(content[i + 1]) = TocStartMarker}

C7FirstStart == IF C7Starts = {} THEN None ELSE Min(C7Starts)

C7Ends ==
    {i \in 0..(Len(content) - 1) :
        /\ C7FirstStart # None
        /\ i > C7FirstStart
        /\ Strip(content[i + 1]) = TocEndMarker}

C7FirstEnd == IF C7Ends = {} THEN None ELSE Min(C7Ends)

(* C7: toc_start is the first start-marker line, toc_end the first         *)
(* end-marker line after it, exactly the lines [toc_start, toc_end] are    *)
(* removed, and nothing is removed without such a pair.                    *)
C7FirstStartMarker ==
    pc = "inserted" =>
        IF C7FirstStart # None /\ C7FirstEnd # None
        THEN /\ toc_start = C7FirstStart
             /\ toc_end = C7FirstEnd
             /\ lines = Take(content, C7FirstStart) \o Drop(content, C7FirstEnd + 1)
        ELSE lines = content

(* ---- C8 ---- *)
(* C8: insert_toc's first heading is the first heading extract_headings    *)
(* returns for the same line list, and it finds none exactly when          *)
(* extract_headings returns none.                                          *)
C8SameFirstHeading ==
    pc = "inserted" =>
        IF extract_headings(lines) = <<>> THEN first_heading_idx = None
        ELSE first_heading_idx = extract_headings(lines)[1][3]

(* ---- C1 ---- *)
(* C1: a second run of the tool on its own output writes that output back  *)
(* unchanged, line for line.                                               *)
C1Idempotent ==
    (pc = "inserted" /\ run = 2) => result = content

(* ---- C10 ---- *)
(* C10: the document written has the headings (level and text, in order)   *)
(* of the document read, which are the ones the inserted TOC was made from. *)
C10SameHeadings ==
    pc = "inserted" => LevelText(extract_headings(result)) = LevelText(headings)

====
